---- MODULE Spec2Model ----
(***************************************************************************)
(* Model of the fraud-detection inference service (src/app/main.py):       *)
(* the startup artifact load, the readiness/liveness state, the health     *)
(* probes and the /predict handler with its request validation, feature    *)
(* projection, classifier call and decision threshold.                     *)
(***************************************************************************)
EXTENDS Integers, Sequences, FiniteSets, TLC

VARIABLES
    artifact,       \* what lies at artifacts/model.pkl (the environment)
    model,          \* global `model`: None or the loaded object
    feature_names,  \* global `feature_names`: None or the list of names
    app_state,      \* global `app_state`: {is_ready, is_alive}
    startup_pc,     \* position of startup_event
    startup_error,  \* the exception startup_event caught, "" if none
    runs,           \* how many times startup_event has been entered
    loads,          \* how many times joblib.load has been called
    error_log,      \* the error-level events startup_event has logged
    last,           \* the most recent request and the response it received
    inflight        \* the requests being handled statement by statement

vars == <<artifact, model, feature_names, app_state, startup_pc,
          startup_error, runs, loads, error_log, last, inflight>>

\* Largest field value a request carries (values are 0..MaxVal).
MaxVal == 3

Values == 0..MaxVal

\* a number beyond the range of float32, which the classifier's input
\* validation refuses
TooLarge == MaxVal + 1

(***************************************************************************)
(* Python's None and a present value.                                      *)
(***************************************************************************)
None == <<>>

Some(x) == <<x>>

IsNone(x) == x = <<>>

Get(x) == x[1]

(***************************************************************************)
(* TransactionFeatures: the 30 required float fields, in declaration order.*)
(***************************************************************************)
TransactionFeatures ==
    <<"Time",
      "V1", "V2", "V3", "V4", "V5", "V6", "V7", "V8", "V9", "V10",
      "V11", "V12", "V13", "V14", "V15", "V16", "V17", "V18", "V19", "V20",
      "V21", "V22", "V23", "V24", "V25", "V26", "V27", "V28",
      "Amount">>

RequiredFields == {TransactionFeatures[i] : i \in 1..Len(TransactionFeatures)}

(***************************************************************************)
(* Probabilities are exact rationals num/den, so that 0.5 and 0.50001 are  *)
(* distinct values and no rounding is introduced by the model.             *)
(***************************************************************************)
Prob(n, d) == [num |-> n, den |-> d]

\* a > b for rationals with positive denominators
Greater(a, b) == a.num * b.den > b.num * a.den

\* The literal 0.5 of the decision rule.
Threshold == Prob(1, 2)

(***************************************************************************)
(* Classifiers an artifact may hold.  A fitted decision tree maps a row to *)
(* the class distribution of one of its leaves; an estimator without       *)
(* predict_proba raises when the method is looked up.                      *)
(***************************************************************************)
TreeLeaves ==
    <<Prob(23, 1000), Prob(1, 2), Prob(50001, 100000), Prob(1, 1)>>

StumpLeaves == <<Prob(0, 1), Prob(3, 4)>>

DecisionTree == [has_proba |-> TRUE, leaves |-> TreeLeaves]

DecisionStump == [has_proba |-> TRUE, leaves |-> StumpLeaves]

NoProbaEstimator == [has_proba |-> FALSE, leaves |-> <<>>]

Classifiers == {DecisionTree, DecisionStump, NoProbaEstimator}

(***************************************************************************)
(* Feature-name lists a fitted artifact may declare.                       *)
(***************************************************************************)
\* a model fitted on every field of the request schema, Time included
AllFieldsOrder == TransactionFeatures

\* train.py: the feature view's V1..V28 and Amount, location dropped
NoTimeOrder == Tail(TransactionFeatures)

ShuffledOrder == <<"V2", "V1", "Amount">>

\* a stale artifact fitted before `location` was dropped from X
SkewedOrder == <<"Amount", "V1", "location">>

FeatureLists == {AllFieldsOrder, NoTimeOrder, ShuffledOrder, SkewedOrder}

(***************************************************************************)
(* What may lie at artifacts/model.pkl.                                    *)
(***************************************************************************)
Pickle(k, n, c) == [kind |-> k, names |-> n, clf |-> c]

MissingFile == Pickle("missing", <<>>, NoProbaEstimator)

CorruptFile == Pickle("corrupt", <<>>, NoProbaEstimator)

\* unpickles, but the object has no feature_names_in_
NoMetadataFile == Pickle("no_metadata", <<>>, DecisionTree)

ValidArtifacts ==
    {Pickle("fitted", n, DecisionTree) : n \in FeatureLists}
        \cup {Pickle("fitted", ShuffledOrder, c) : c \in Classifiers}

Artifacts == {MissingFile, CorruptFile, NoMetadataFile} \cup ValidArtifacts

(***************************************************************************)
(* Request bodies.  A JSON value is a number, a string spelling a number   *)
(* (which the float field coerces) or a string that spells none.           *)
(***************************************************************************)
Number(n) == [t |-> "number", v |-> n]

NumericString(n) == [t |-> "numeric_string", v |-> n]

Text == [t |-> "text", v |-> 0]

\* a complete body: V1, V2 and Amount as given, every other field 0
Body(v1, v2, amount) ==
    [f \in RequiredFields |->
        CASE f = "V1"     -> Number(v1)
          [] f = "V2"     -> Number(v2)
          [] f = "Amount" -> Number(amount)
          [] OTHER        -> Number(0)]

ZeroBody == Body(0, 0, 0)

Without(body, f) == [g \in (DOMAIN body) \ {f} |-> body[g]]

With(body, f, raw) == [g \in (DOMAIN body) \cup {f} |-> IF g = f THEN raw ELSE body[g]]

CompleteBodies ==
    {Body(a, b, c) : a \in Values, b \in Values, c \in Values}
        \cup {With(Body(1, 2, 3), "Time", Number(t)) : t \in Values}

MissingFieldBodies == {Without(ZeroBody, f) : f \in RequiredFields}

MistypedBodies == {With(ZeroBody, f, Text) : f \in RequiredFields}

CoercibleBodies ==
    {With(ZeroBody, f, NumericString(n)) : f \in {"Time", "V2"}, n \in Values}

ExtraFieldBodies == {With(ZeroBody, "merchant", raw) : raw \in {Number(1), Text}}

OverflowBodies ==
    {With(ZeroBody, f, Number(TooLarge)) : f \in {"Time", "V1", "V2"}}

Bodies ==
    CompleteBodies \cup MissingFieldBodies \cup MistypedBodies
        \cup CoercibleBodies \cup ExtraFieldBodies \cup OverflowBodies

\* GET requests carry no body
NoBody == [f \in {} |-> Text]

(***************************************************************************)
(* Request validation: FastAPI validates the body against the type of the  *)
(* handler's parameter before the handler body runs.                       *)
(***************************************************************************)
IsNumeric(raw) == raw.t \in {"number", "numeric_string"}

ToFloat(raw) == raw.v

ValidationErrors(payload) ==
    {f \in RequiredFields : f \notin DOMAIN payload \/ ~IsNumeric(payload[f])}

\* a missing field is filled with 0.0 instead of being reported
Validate_DefaultsMissing(payload) ==
    IF \A f \in (DOMAIN payload) \cap RequiredFields : IsNumeric(payload[f])
    THEN [ok |-> TRUE,
          features |-> [f \in RequiredFields |->
                           IF f \in DOMAIN payload THEN ToFloat(payload[f]) ELSE 0]]
    ELSE [ok |-> FALSE, features |-> [f \in {} |-> 0]]

Validate(payload) ==
    IF ValidationErrors(payload) = {}
    THEN [ok |-> TRUE,
          features |-> [f \in RequiredFields |-> ToFloat(payload[f])]]
    ELSE [ok |-> FALSE, features |-> [f \in {} |-> 0]]

(***************************************************************************)
(* Responses.  A response is a status and a JSON content of one shape, in  *)
(* which the keys a route does not send are None.  With it go the events   *)
(* of the handling, the row handed to predict_proba and what it returned.  *)
(***************************************************************************)
Content(text, loaded, fraud, prob, why) ==
    [status |-> text, model_loaded |-> loaded, is_fraud |-> fraud,
     fraud_probability |-> prob, detail |-> why]

EmptyContent == Content("", None, None, None, "")

\* logger.error({"event": ..., "error": str(e)})
LogEvent(name, cause) == [event |-> name, error |-> cause]

\* `logged` holds the error-level events the handling emitted
Outcome(code, json, events, row, output) ==
    [status |-> code, content |-> json, trace |-> events,
     passed |-> row, proba |-> output, logged |-> <<>>]

\* the validation error surfaces as a server fault
ValidationRejection_ServerFault ==
    Outcome(500, Content("", None, None, None, "validation error"),
            <<"validate">>, None, None)

ValidationRejection ==
    Outcome(422, Content("", None, None, None, "validation error"),
            <<"validate">>, None, None)

\* the 503 raised by the readiness check is caught and reported as a 500
NotReady_Masked ==
    Outcome(500, Content("", None, None, None,
                         "Prediction failed: 503: Service not ready. Model not loaded."),
            <<"validate", "ready_check">>, None, None)

NotReady ==
    Outcome(503, Content("", None, None, None, "Service not ready. Model not loaded."),
            <<"validate", "ready_check">>, None, None)

\* the failure is reported as the service being unavailable
PredictionFailed_Unavailable(cause, events, row) ==
    Outcome(503, Content("", None, None, None, "Prediction failed: " \o cause),
            <<"validate", "ready_check">> \o events, row, None)

\* the failure is reported as the client's fault
PredictionFailed_ClientError(cause, events, row) ==
    Outcome(400, Content("", None, None, None, "Prediction failed: " \o cause),
            <<"validate", "ready_check">> \o events, row, None)

\* the failure is answered with a 500 but not logged
PredictionFailed_Silent(cause, events, row) ==
    Outcome(500, Content("", None, None, None, "Prediction failed: " \o cause),
            <<"validate", "ready_check">> \o events, row, None)

\* except Exception as e: the error is logged, then HTTPException(500)
PredictionFailed(cause, events, row) ==
    [Outcome(500, Content("", None, None, None, "Prediction failed: " \o cause),
             <<"validate", "ready_check">> \o events, row, None)
        EXCEPT !.logged = <<LogEvent("prediction_error", cause)>>]

(***************************************************************************)
(* The single-row DataFrame of a validated record and column selection.    *)
(***************************************************************************)
DataFrame(features) ==
    [columns |-> TransactionFeatures,
     data |-> [i \in 1..Len(TransactionFeatures) |-> features[TransactionFeatures[i]]]]

HasColumns(df, names) ==
    \A i \in 1..Len(names) : \E j \in 1..Len(df.columns) : df.columns[j] = names[i]

ColumnIndex(df, name) ==
    CHOOSE j \in 1..Len(df.columns) : df.columns[j] = name

\* no projection: the whole frame goes to the classifier
SelectColumns_KeepsAll(df, names) == df

\* keeps the frame's own column order instead of the order of names
SelectColumns_FrameOrder(df, names) ==
    LET keep == SelectSeq([j \in 1..Len(df.columns) |-> j],
                          LAMBDA j : \E i \in 1..Len(names) : names[i] = df.columns[j])
    IN  [columns |-> [k \in 1..Len(keep) |-> df.columns[keep[k]]],
         data |-> [k \in 1..Len(keep) |-> df.data[keep[k]]]]

SelectColumns(df, names) ==
    [columns |-> names,
     data |-> [i \in 1..Len(names) |-> df.data[ColumnIndex(df, names[i])]]]

(***************************************************************************)
(* The classifier call and the decision.                                   *)
(***************************************************************************)
Complement(p) == Prob(p.den - p.num, p.den)

Leaf(clf, df) == clf.leaves[(df.data[1] % Len(clf.leaves)) + 1]

\* one row in, one row [P(normal), P(fraud)] out
PredictProba(clf, df) == <<<<Complement(Leaf(clf, df)), Leaf(clf, df)>>>>

\* reads the normal-class entry
FraudProbability_NormalClass(prediction_proba) == prediction_proba[1][1]

\* prediction_proba[0][1]
FraudProbability(prediction_proba) == prediction_proba[1][2]

\* a non-strict threshold
IsFraud_AtLeast(fraud_probability) ==
    IF ~Greater(Threshold, fraud_probability) THEN 1 ELSE 0

IsFraud(fraud_probability) ==
    IF Greater(fraud_probability, Threshold) THEN 1 ELSE 0

PredictionResponse(prediction_proba, events, row) ==
    Outcome(200,
            Content("", None,
                    Some(IsFraud(FraudProbability(prediction_proba))),
                    Some(FraudProbability(prediction_proba)), ""),
            <<"validate", "ready_check">> \o events, row, Some(prediction_proba))

\* predict_proba validates its input before it walks the tree
Representable(df) == \A i \in 1..Len(df.data) : df.data[i] # TooLarge

\* a failed call is made a second time before giving up
Invoke_Retry(clf, features_df) ==
    IF Representable(features_df)
    THEN PredictionResponse(
             PredictProba(clf, features_df),
             <<"read_feature_names", "read_model", "predict_proba">>,
             Some(features_df.data))
    ELSE PredictionFailed(
             "ValueError",
             <<"read_feature_names", "read_model", "predict_proba", "predict_proba">>,
             Some(features_df.data))

\* prediction_proba = model.predict_proba(features_df) and what follows it
Invoke(clf, features_df) ==
    IF Representable(features_df)
    THEN PredictionResponse(
             PredictProba(clf, features_df),
             <<"read_feature_names", "read_model", "predict_proba">>,
             Some(features_df.data))
    ELSE PredictionFailed(
             "ValueError",
             <<"read_feature_names", "read_model", "predict_proba">>,
             Some(features_df.data))

\* the try block of predict
TryPredict(features) ==
    LET df == DataFrame(features) IN
    IF IsNone(feature_names)
    THEN PredictionFailed("KeyError: None", <<"read_feature_names">>, None)
    ELSE IF ~HasColumns(df, Get(feature_names))
    THEN PredictionFailed("KeyError", <<"read_feature_names">>, None)
    ELSE LET features_df == SelectColumns(df, Get(feature_names)) IN
         IF IsNone(model)
         THEN PredictionFailed("AttributeError: NoneType",
                               <<"read_feature_names", "read_model">>, None)
         ELSE IF ~Get(model).clf.has_proba
         THEN PredictionFailed("AttributeError",
                               <<"read_feature_names", "read_model">>, None)
         ELSE Invoke(Get(model).clf, features_df)

\* the body of predict without its readiness check
PredictBody_Unchecked(features) == TryPredict(features)

\* the body of predict, run on a validated record
PredictBody(features) ==
    IF ~app_state.is_ready THEN NotReady ELSE TryPredict(features)

\* the readiness check runs before the body is validated
predict_ReadyFirst(payload) ==
    LET validated == Validate(payload) IN
    IF ~app_state.is_ready THEN NotReady
    ELSE IF validated.ok THEN TryPredict(validated.features)
    ELSE ValidationRejection

predict(payload) ==
    LET validated == Validate(payload) IN
    IF validated.ok THEN PredictBody(validated.features) ELSE ValidationRejection

(***************************************************************************)
(* The probes and the root route.                                          *)
(***************************************************************************)
\* reports healthy only once the model is loaded
health_check_RequiresReady ==
    IF app_state.is_ready
    THEN Outcome(200, Content("healthy", None, None, None, ""), <<>>, None, None)
    ELSE Outcome(503, EmptyContent, <<>>, None, None)

health_check ==
    Outcome(200, Content("healthy", None, None, None, ""), <<>>, None, None)

liveness_probe ==
    IF app_state.is_alive
    THEN Outcome(200, Content("alive", None, None, None, ""), <<>>, None, None)
    ELSE Outcome(503, EmptyContent, <<>>, None, None)

\* answers ready without looking at is_ready
readiness_probe_Unconditional ==
    Outcome(200, Content("ready", Some(~IsNone(model)), None, None, ""),
            <<>>, None, None)

readiness_probe ==
    IF app_state.is_ready
    THEN Outcome(200, Content("ready", Some(~IsNone(model)), None, None, ""),
                 <<>>, None, None)
    ELSE Outcome(503, EmptyContent, <<>>, None, None)

root ==
    Outcome(200, Content("running", None, None, None, ""), <<>>, None, None)

(***************************************************************************)
(* State after the module has been imported, before startup_event runs.    *)
(***************************************************************************)
NoReply == Outcome(0, EmptyContent, <<>>, None, None)

NoExchange ==
    [route |-> "", payload |-> NoBody, seen_pc |-> "begin", reply |-> NoReply]

\* the tasks that handle requests side by side
Clients == {"a", "b"}

Idle ==
    [route |-> "", pc |-> "idle", payload |-> NoBody, in_ready |-> FALSE,
     features |-> None, frame |-> None, reply |-> NoReply]

Init ==
    /\ artifact \in Artifacts
    /\ model = None
    /\ feature_names = None
    /\ app_state = [is_ready |-> FALSE, is_alive |-> TRUE]
    /\ startup_pc = "begin"
    /\ startup_error = ""
    /\ runs = 0
    /\ loads = 0
    /\ error_log = <<>>
    /\ last = NoExchange
    /\ inflight = [c \in Clients |-> Idle]

(***************************************************************************)
(* startup_event, one action per statement of its try block.  A statement  *)
(* that raises runs the except clause in the same step.                    *)
(***************************************************************************)
\* the except clause lets the exception escape startup_event
StartupFailure_Reraise(cause) ==
    /\ startup_error' = cause
    /\ error_log' = Append(error_log, LogEvent("startup_failure", cause))
    /\ startup_pc' = "crashed"
    /\ UNCHANGED app_state

\* the except clause runs startup_event again
StartupFailure_Retry(cause) ==
    /\ app_state' = [app_state EXCEPT !.is_ready = FALSE]
    /\ startup_error' = cause
    /\ error_log' = Append(error_log, LogEvent("startup_failure", cause))
    /\ startup_pc' = "begin"

\* the except clause also clears is_alive
StartupFailure_ClearsAlive(cause) ==
    /\ app_state' = [is_ready |-> FALSE, is_alive |-> FALSE]
    /\ startup_error' = cause
    /\ error_log' = Append(error_log, LogEvent("startup_failure", cause))
    /\ startup_pc' = "failed"

\* the except clause reports every failure with the same cause
StartupFailure_GenericCause(cause) ==
    /\ app_state' = [app_state EXCEPT !.is_ready = FALSE]
    /\ startup_error' = "Exception"
    /\ error_log' = Append(error_log, LogEvent("startup_failure", "Exception"))
    /\ startup_pc' = "failed"

\* except Exception as e: is_ready = False; the error is logged
StartupFailure(cause) ==
    /\ app_state' = [app_state EXCEPT !.is_ready = FALSE]
    /\ startup_error' = cause
    /\ error_log' = Append(error_log, LogEvent("startup_failure", cause))
    /\ startup_pc' = "failed"

\* is_ready is raised as soon as the file is found, before it is loaded
StartupCheckPath_ReadyFirst ==
    /\ startup_pc = "begin"
    /\ runs' = runs + 1
    /\ IF artifact.kind = "missing"
       THEN StartupFailure("FileNotFoundError")
       ELSE /\ startup_pc' = "load"
            /\ app_state' = [app_state EXCEPT !.is_ready = TRUE]
            /\ UNCHANGED <<startup_error, error_log>>
    /\ UNCHANGED <<artifact, model, feature_names, loads, last, inflight>>

\* if not os.path.exists(model_path): raise FileNotFoundError
StartupCheckPath ==
    /\ startup_pc = "begin"
    /\ runs' = runs + 1
    /\ IF artifact.kind = "missing"
       THEN StartupFailure("FileNotFoundError")
       ELSE /\ startup_pc' = "load"
            /\ UNCHANGED <<app_state, startup_error, error_log>>
    /\ UNCHANGED <<artifact, model, feature_names, loads, last, inflight>>

\* model = joblib.load(model_path)
StartupLoad ==
    /\ startup_pc = "load"
    /\ loads' = loads + 1
    /\ IF artifact.kind = "corrupt"
       THEN /\ StartupFailure("UnpicklingError")
            /\ UNCHANGED model
       ELSE /\ model' = Some(artifact)
            /\ startup_pc' = "names"
            /\ UNCHANGED <<app_state, startup_error, error_log>>
    /\ UNCHANGED <<artifact, feature_names, runs, last, inflight>>

\* an object without feature-name metadata is accepted as it is
StartupFeatureNames_Lenient ==
    /\ startup_pc = "names"
    /\ IF Get(model).kind = "no_metadata"
       THEN UNCHANGED feature_names
       ELSE feature_names' = Some(Get(model).names)
    /\ startup_pc' = "set_ready"
    /\ UNCHANGED <<artifact, model, app_state, startup_error, runs, loads,
                   error_log, last, inflight>>

\* feature_names = model.feature_names_in_.tolist()
StartupFeatureNames ==
    /\ startup_pc = "names"
    /\ IF Get(model).kind = "no_metadata"
       THEN /\ StartupFailure("AttributeError")
            /\ UNCHANGED feature_names
       ELSE /\ feature_names' = Some(Get(model).names)
            /\ startup_pc' = "set_ready"
            /\ UNCHANGED <<app_state, startup_error, error_log>>
    /\ UNCHANGED <<artifact, model, runs, loads, last, inflight>>

\* app_state["is_ready"] = True, and the success is logged
StartupSetReady ==
    /\ startup_pc = "set_ready"
    /\ app_state' = [app_state EXCEPT !.is_ready = TRUE]
    /\ startup_pc' = "ready"
    /\ UNCHANGED <<artifact, model, feature_names, startup_error, runs, loads,
                   error_log, last, inflight>>

startup_event ==
    StartupCheckPath \/ StartupLoad \/ StartupFeatureNames \/ StartupSetReady

(***************************************************************************)
(* Serving a request: the handler runs to its response.                    *)
(***************************************************************************)
\* /predict recomputes the feature names from the request's own columns
Serve_RecomputesNames(route, payload, outcome) ==
    /\ last' = [route |-> route, payload |-> payload, seen_pc |-> startup_pc,
                reply |-> outcome]
    /\ feature_names' = IF route = "/predict" /\ outcome.status = 200
                        THEN Some(TransactionFeatures)
                        ELSE feature_names
    /\ UNCHANGED <<artifact, model, app_state, startup_pc,
                   startup_error, runs, loads, error_log, inflight>>

\* a request that ends in a server fault takes the service out of rotation
Serve_FaultClearsReady(route, payload, outcome) ==
    /\ last' = [route |-> route, payload |-> payload, seen_pc |-> startup_pc,
                reply |-> outcome]
    /\ app_state' = IF outcome.status = 500
                    THEN [app_state EXCEPT !.is_ready = FALSE]
                    ELSE app_state
    /\ UNCHANGED <<artifact, model, feature_names, startup_pc,
                   startup_error, runs, loads, error_log, inflight>>

Serve(route, payload, outcome) ==
    /\ last' = [route |-> route, payload |-> payload, seen_pc |-> startup_pc,
                reply |-> outcome]
    /\ UNCHANGED <<artifact, model, feature_names, app_state, startup_pc,
                   startup_error, runs, loads, error_log, inflight>>

GetRoot == Serve("/", NoBody, root)

GetHealth == Serve("/health", NoBody, health_check)

GetLive == Serve("/live", NoBody, liveness_probe)

GetReady == Serve("/ready", NoBody, readiness_probe)

PostPredict == \E payload \in Bodies : Serve("/predict", payload, predict(payload))

Next ==
    \/ StartupCheckPath
    \/ StartupLoad
    \/ StartupFeatureNames
    \/ StartupSetReady
    \/ GetRoot
    \/ GetHealth
    \/ GetLive
    \/ GetReady
    \/ PostPredict

Spec == Init /\ [][Next]_vars

(***************************************************************************)
(* Requests handled side by side: each statement of a handler is a step of *)
(* its own, and the steps of different requests and of startup_event       *)
(* interleave freely.                                                      *)
(***************************************************************************)
ConcurrentArtifacts ==
    {NoMetadataFile,
     Pickle("fitted", ShuffledOrder, DecisionTree),
     Pickle("fitted", ShuffledOrder, NoProbaEstimator),
     Pickle("fitted", SkewedOrder, DecisionTree)}

ConcurrentBodies ==
    {Body(1, 2, 3), ZeroBody, Without(ZeroBody, "V14"),
     With(ZeroBody, "Amount", Text), With(ZeroBody, "V2", Number(TooLarge))}

InitConcurrent == Init /\ artifact \in ConcurrentArtifacts

Others == <<artifact, model, feature_names, app_state, startup_pc,
            startup_error, runs, loads, error_log, last>>

Finish(c, outcome) ==
    inflight' = [inflight EXCEPT ![c].pc = "done", ![c].reply = outcome]

Advance(c, to) == inflight' = [inflight EXCEPT ![c].pc = to]

\* the request reads the frame another request built
FrameOf_Shared(c) ==
    IF \E d \in Clients \ {c} : ~IsNone(inflight[d].frame)
    THEN Get(inflight[CHOOSE d \in Clients \ {c} : ~IsNone(inflight[d].frame)].frame)
    ELSE Get(inflight[c].frame)

\* features_df is a local of the handler
FrameOf(c) == Get(inflight[c].frame)

Receive(c, route, payload) ==
    /\ inflight[c].pc \in {"idle", "done"}
    /\ inflight' = [inflight EXCEPT ![c] =
           [Idle EXCEPT !.route = route, !.payload = payload,
                        !.pc = IF route = "/predict" THEN "validate" ELSE "probe_flag",
                        !.in_ready = (startup_pc = "ready")]]
    /\ UNCHANGED Others

ReceivePredict(c) == \E payload \in ConcurrentBodies : Receive(c, "/predict", payload)

ReceiveReady(c) == Receive(c, "/ready", NoBody)

\* the body is validated against TransactionFeatures
StepValidate(c) ==
    /\ inflight[c].pc = "validate"
    /\ LET validated == Validate(inflight[c].payload) IN
       IF validated.ok
       THEN inflight' = [inflight EXCEPT ![c].pc = "check_ready",
                                         ![c].features = Some(validated.features)]
       ELSE Finish(c, ValidationRejection)
    /\ UNCHANGED Others

\* if not app_state["is_ready"]: raise HTTPException(503)
StepCheckReady(c) ==
    /\ inflight[c].pc = "check_ready"
    /\ IF ~app_state.is_ready THEN Finish(c, NotReady) ELSE Advance(c, "select")
    /\ UNCHANGED Others

\* features_df = pd.DataFrame([features.dict()])[feature_names]
StepSelect(c) ==
    /\ inflight[c].pc = "select"
    /\ LET df == DataFrame(Get(inflight[c].features)) IN
       IF IsNone(feature_names)
       THEN Finish(c, PredictionFailed("KeyError: None", <<"read_feature_names">>, None))
       ELSE IF ~HasColumns(df, Get(feature_names))
       THEN Finish(c, PredictionFailed("KeyError", <<"read_feature_names">>, None))
       ELSE inflight' = [inflight EXCEPT
                ![c].pc = "classify",
                ![c].frame = Some(SelectColumns(df, Get(feature_names)))]
    /\ UNCHANGED Others

\* model.predict_proba(features_df), the decision and the response
StepClassify(c) ==
    /\ inflight[c].pc = "classify"
    /\ IF IsNone(model)
       THEN Finish(c, PredictionFailed("AttributeError: NoneType",
                                       <<"read_feature_names", "read_model">>, None))
       ELSE IF ~Get(model).clf.has_proba
       THEN Finish(c, PredictionFailed("AttributeError",
                                       <<"read_feature_names", "read_model">>, None))
       ELSE Finish(c, Invoke(Get(model).clf, FrameOf(c)))
    /\ UNCHANGED Others

\* readiness_probe: if app_state["is_ready"]
StepProbeFlag(c) ==
    /\ inflight[c].pc = "probe_flag"
    /\ IF app_state.is_ready
       THEN Advance(c, "probe_model")
       ELSE Finish(c, Outcome(503, EmptyContent, <<>>, None, None))
    /\ UNCHANGED Others

\* readiness_probe: return {"status": "ready", "model_loaded": model is not None}
StepProbeModel(c) ==
    /\ inflight[c].pc = "probe_model"
    /\ Finish(c, Outcome(200, Content("ready", Some(~IsNone(model)), None, None, ""),
                         <<>>, None, None))
    /\ UNCHANGED Others

NextConcurrent ==
    \/ StartupCheckPath
    \/ StartupLoad
    \/ StartupFeatureNames
    \/ StartupSetReady
    \/ \E c \in Clients : ReceivePredict(c)
    \/ \E c \in Clients : ReceiveReady(c)
    \/ \E c \in Clients : StepValidate(c)
    \/ \E c \in Clients : StepCheckReady(c)
    \/ \E c \in Clients : StepSelect(c)
    \/ \E c \in Clients : StepClassify(c)
    \/ \E c \in Clients : StepProbeFlag(c)
    \/ \E c \in Clients : StepProbeModel(c)

SpecConcurrent == InitConcurrent /\ [][NextConcurrent]_vars

(***************************************************************************)
(* Vocabulary of the properties.                                           *)
(***************************************************************************)
\* the request was answered while startup_event stood at one of these
BeforeLoadCompleted == {"begin", "load", "names", "set_ready"}

AnsweredNotReady == last.seen_pc \in BeforeLoadCompleted \cup {"failed"}

IsPredict == last.route = "/predict"

LacksField == \E f \in RequiredFields : f \notin DOMAIN last.payload

HasNonNumeric ==
    \E f \in RequiredFields \cap DOMAIN last.payload : last.payload[f].t = "text"

ViolatesSchema == LacksField \/ HasNonNumeric

Occurs(event) == \E i \in 1..Len(last.reply.trace) : last.reply.trace[i] = event

ClassifierUntouched ==
    /\ ~Occurs("predict_proba")
    /\ last.reply.passed = None
    /\ last.reply.proba = None

\* C1: after startup_event has completed a load, /ready answers 200 with
\* status "ready" and model_loaded true; before the load has completed and
\* after a failed load it answers 503.
C1_StartupOrdering ==
    last.route = "/ready" =>
        /\ last.seen_pc = "ready" =>
              /\ last.reply.status = 200
              /\ last.reply.content.status = "ready"
              /\ last.reply.content.model_loaded = Some(TRUE)
        /\ AnsweredNotReady => last.reply.status = 503

C1_Witness ==
    /\ last.route = "/ready"
    /\ last.seen_pc = "ready"
    /\ artifact.kind = "fitted"
    /\ last.reply.status = 200

\* C2 as stated: while no artifact is loaded every /predict call, whatever
\* its payload, is answered 503 and the classifier is not invoked.
C2_AnyPayload503 ==
    (IsPredict /\ AnsweredNotReady) =>
        (last.reply.status = 503 /\ ClassifierUntouched)

\* C2 as amended: while no artifact is loaded a schema-valid /predict call
\* is answered 503 and a schema-invalid one 422; in both cases the
\* classifier is not invoked and neither the model handle nor the
\* feature-name list is read; in every /predict call those reads come after
\* the readiness check.
C2_NotReadyRejection ==
    IsPredict =>
        /\ AnsweredNotReady =>
              /\ ~ViolatesSchema => last.reply.status = 503
              /\ ViolatesSchema => last.reply.status = 422
              /\ ClassifierUntouched
              /\ ~Occurs("read_model")
              /\ ~Occurs("read_feature_names")
        /\ \A i \in 1..Len(last.reply.trace) :
              last.reply.trace[i] \in {"read_model", "read_feature_names", "predict_proba"}
                  => \E j \in 1..(i - 1) : last.reply.trace[j] = "ready_check"

C2_Witness ==
    /\ IsPredict
    /\ last.seen_pc = "names"
    /\ ~IsNone(model)
    /\ ~ViolatesSchema
    /\ last.reply.status = 503

\* C3: is_alive holds in every reachable state and /live answers 200
\* "alive" whatever the readiness state.
C3_LivenessIndependence ==
    /\ app_state.is_alive
    /\ last.route = "/live" =>
          (last.reply.status = 200 /\ last.reply.content.status = "alive")

C3_Witness ==
    /\ last.route = "/live"
    /\ last.seen_pc = "failed"
    /\ ~app_state.is_ready
    /\ last.reply.status = 200

\* C4: a /predict call whose record lacks a required field gets a 4xx
\* response, never a 500 and never a prediction; the classifier is not
\* invoked.
C4_ValidationCompleteness ==
    (IsPredict /\ LacksField) =>
        /\ last.reply.status \in 400..499
        /\ last.reply.content.is_fraud = None
        /\ last.reply.content.fraud_probability = None
        /\ ClassifierUntouched

C4_Witness ==
    /\ IsPredict
    /\ last.seen_pc = "ready"
    /\ "V14" \notin DOMAIN last.payload
    /\ last.reply.status = 422

\* C5 as stated: a /predict call whose payload violates the schema is
\* rejected with status 400.
C5_Status400 ==
    (IsPredict /\ ViolatesSchema) => last.reply.status = 400

\* C5 as amended: a /predict call whose payload violates the schema is
\* rejected with status 422, a client error.
C5_Status422 ==
    (IsPredict /\ ViolatesSchema) =>
        (last.reply.status = 422 /\ last.reply.content.is_fraud = None)

C5_Witness ==
    /\ IsPredict
    /\ last.seen_pc = "ready"
    /\ ~LacksField
    /\ HasNonNumeric
    /\ last.reply.status = 422

Value(f) == last.payload[f].v

\* C6: the row passed to predict_proba has one value per loaded feature
\* name and its i-th value is the record's value of the i-th name; with
\* names [V2, V1, Amount] and record {V1:1, V2:2, Amount:3, Time:0} the row
\* is [2, 1, 3].
C6_FeatureReordering ==
    (IsPredict /\ last.reply.passed # None) =>
        LET F == Get(feature_names)
            row == Get(last.reply.passed)
        IN  /\ Len(row) = Len(F)
            /\ \A i \in 1..Len(F) : row[i] = Value(F[i])
            /\ (/\ F = <<"V2", "V1", "Amount">>
                /\ Value("V1") = 1 /\ Value("V2") = 2
                /\ Value("Amount") = 3 /\ Value("Time") = 0)
                   => row = <<2, 1, 3>>

C6_Witness ==
    /\ IsPredict
    /\ ~ViolatesSchema
    /\ feature_names = Some(<<"V2", "V1", "Amount">>)
    /\ Value("V1") = 1 /\ Value("V2") = 2
    /\ Value("Amount") = 3 /\ Value("Time") = 0
    /\ last.reply.passed = Some(<<2, 1, 3>>)

Answered200 == IsPredict /\ last.reply.status = 200

Returned == Get(last.reply.content.fraud_probability)

\* C7: in a 200 response of /predict is_fraud is 1 exactly when the
\* returned fraud_probability is strictly greater than 0.5, and 0 otherwise;
\* 0.5 gives 0 and 0.50001 gives 1.
C7_ThresholdBoundary ==
    Answered200 =>
        /\ last.reply.content.is_fraud \in {Some(0), Some(1)}
        /\ last.reply.content.is_fraud = Some(1) <=> 2 * Returned.num > Returned.den
        /\ Returned = Prob(1, 2) => last.reply.content.is_fraud = Some(0)
        /\ Returned = Prob(50001, 100000) => last.reply.content.is_fraud = Some(1)

C7_Witness ==
    /\ Answered200
    /\ Returned = Prob(1, 2)
    /\ last.reply.content.is_fraud = Some(0)

\* C8: in a 200 response of /predict fraud_probability is the index-1
\* entry of the first row predict_proba returned, unchanged; a classifier
\* returning P(fraud) = 0.023 gives {is_fraud: 0, fraud_probability: 0.023}.
C8_PositiveClass ==
    Answered200 =>
        /\ last.reply.proba # None
        /\ Returned = Get(last.reply.proba)[1][2]
        /\ Get(last.reply.proba)[1][2] = Prob(23, 1000) =>
              /\ last.reply.content.is_fraud = Some(0)
              /\ last.reply.content.fraud_probability = Some(Prob(23, 1000))

C8_Witness ==
    /\ Answered200
    /\ last.reply.proba = Some(<<<<Prob(977, 1000), Prob(23, 1000)>>>>)
    /\ last.reply.content.is_fraud = Some(0)
    /\ last.reply.content.fraud_probability = Some(Prob(23, 1000))

Terminal == startup_pc \in {"ready", "failed"}

\* C9: the process starts not ready and alive; startup_event runs once and
\* ends in exactly one of READY (is_ready true) or LOAD_FAILED (is_ready
\* false); both are terminal, no later step runs the load again, and
\* is_ready never goes from true back to false.
C9_StateMachine ==
    /\ [](/\ startup_pc = "begin" => (~app_state.is_ready /\ app_state.is_alive /\ runs = 0)
          /\ startup_pc \in BeforeLoadCompleted \cup {"ready", "failed"}
          /\ runs <= 1 /\ loads <= 1
          /\ Terminal => runs = 1
          /\ startup_pc = "ready" => (app_state.is_ready /\ loads = 1)
          /\ startup_pc # "ready" => ~app_state.is_ready)
    /\ [][Terminal => UNCHANGED <<startup_pc, runs, loads, app_state, model,
                                  feature_names>>]_vars
    /\ [][app_state.is_ready => app_state'.is_ready]_vars

C9_Witness ==
    /\ startup_pc = "failed"
    /\ runs = 1
    /\ IsPredict
    /\ last.seen_pc = "failed"

FailureCauses == {"FileNotFoundError", "UnpicklingError", "AttributeError"}

\* C10: for a missing file, a file that does not deserialize and an object
\* without feature-name metadata, startup_event ends normally with is_ready
\* false, and from then on /live and /health answer 200, /ready answers 503
\* and every /predict is rejected.
C10_LoadFailureNotFatal ==
    /\ [](/\ (artifact.kind = "missing" /\ startup_pc # "begin")
              => (startup_pc = "failed" /\ startup_error = "FileNotFoundError")
          /\ (artifact.kind = "corrupt" /\ startup_pc \notin {"begin", "load"})
              => (startup_pc = "failed" /\ startup_error = "UnpicklingError")
          /\ (artifact.kind = "no_metadata" /\ startup_pc \notin {"begin", "load", "names"})
              => (startup_pc = "failed" /\ startup_error = "AttributeError")
          /\ startup_pc = "failed" => (~app_state.is_ready /\ app_state.is_alive)
          /\ last.seen_pc = "failed" =>
                /\ last.route \in {"/live", "/health"} => last.reply.status = 200
                /\ last.route = "/ready" => last.reply.status = 503
                /\ IsPredict => (last.reply.status \in {503, 422} /\ ClassifierUntouched))
    /\ [][startup_pc = "failed" => (startup_pc' = "failed" /\ ~app_state'.is_ready)]_vars

C10_Witness ==
    /\ startup_error = "AttributeError"
    /\ ~IsNone(model)
    /\ last.seen_pc = "failed"
    /\ IsPredict
    /\ last.reply.status = 503

AnsweredReady == last.seen_pc = "ready"

\* the loaded sequence names a field the validated record does not carry
Skewed ==
    /\ ~IsNone(feature_names)
    /\ \E i \in 1..Len(Get(feature_names)) : Get(feature_names)[i] \notin RequiredFields

\* C11: when the service is ready and the loaded feature names contain a
\* name the validated record lacks, /predict answers 500 with a message
\* naming the cause, predict_proba is not invoked, and the process and its
\* readiness state stay as they were.
C11_FeatureMismatch ==
    /\ []((IsPredict /\ AnsweredReady /\ ~ViolatesSchema /\ Skewed) =>
            /\ last.reply.status = 500
            /\ last.reply.content.detail = "Prediction failed: KeyError"
            /\ ClassifierUntouched
            /\ app_state.is_ready
            /\ app_state.is_alive
            /\ startup_pc = "ready")
    /\ [][last'.reply.status = 500 =>
             UNCHANGED <<app_state, model, feature_names, startup_pc>>]_vars

C11_Witness ==
    /\ IsPredict
    /\ AnsweredReady
    /\ ~ViolatesSchema
    /\ feature_names = Some(SkewedOrder)
    /\ last.reply.status = 500
    /\ app_state.is_ready

Invocations ==
    Cardinality({i \in 1..Len(last.reply.trace) : last.reply.trace[i] = "predict_proba"})

InvocationFailed == Occurs("predict_proba") /\ last.reply.proba = None

\* C12: a /predict call invokes predict_proba at most once; when that
\* invocation fails the call is answered 500 with a message that includes
\* the cause, and there is no second invocation.
C12_NoRetries ==
    IsPredict =>
        /\ Invocations <= 1
        /\ InvocationFailed =>
              /\ last.reply.status = 500
              /\ last.reply.content.detail = "Prediction failed: ValueError"
              /\ last.reply.content.is_fraud = None
              /\ Invocations = 1

C12_Witness ==
    /\ IsPredict
    /\ InvocationFailed
    /\ last.reply.passed = Some(<<TooLarge, 0, 0>>)
    /\ last.reply.status = 500

Routes == {"/", "/health", "/live", "/ready", "/predict"}

\* a request has just been answered
Answered == last' # last /\ last'.route \in Routes

\* C13: no handler and no /predict outcome modifies app_state, model or
\* feature_names; only startup_event writes them, so after any requests
\* they equal what startup left.
C13_HandlersReadOnly ==
    /\ [][Answered => UNCHANGED <<app_state, model, feature_names, startup_pc>>]_vars
    /\ [][UNCHANGED startup_pc => UNCHANGED <<app_state, model, feature_names>>]_vars
    /\ [](startup_pc = "ready" =>
            /\ app_state = [is_ready |-> TRUE, is_alive |-> TRUE]
            /\ model = Some(artifact)
            /\ feature_names = Some(artifact.names))
    /\ [](startup_pc = "failed" =>
            /\ app_state = [is_ready |-> FALSE, is_alive |-> TRUE]
            /\ model = IF artifact.kind = "no_metadata" THEN Some(artifact) ELSE None
            /\ feature_names = None)

C13_Witness ==
    /\ IsPredict
    /\ AnsweredReady
    /\ last.reply.status = 500
    /\ app_state.is_ready
    /\ model = Some(artifact)

PerRequestError == {422, 503, 500}

\* C14: after /predict calls that end in validation rejections, 503s or
\* 500s, /health answers 200 "healthy", /live answers 200 and /ready answers
\* what it answered before them; /health answers 200 in every state.
C14_ProbesSurviveErrors ==
    /\ [](/\ health_check.status = 200
          /\ health_check.content.status = "healthy"
          /\ last.route = "/health" => last.reply = health_check)
    /\ [][(Answered /\ last'.route = "/predict" /\ last'.reply.status \in PerRequestError) =>
             /\ readiness_probe' = readiness_probe
             /\ liveness_probe' = liveness_probe
             /\ liveness_probe'.status = 200
             /\ health_check'.status = 200]_vars

C14_Witness ==
    /\ IsPredict
    /\ last.reply.status = 500
    /\ readiness_probe.status = 200
    /\ liveness_probe.status = 200
    /\ health_check.status = 200

PastReadyCheck(c) == inflight[c].pc \in {"select", "classify", "probe_model"}

Done(c) == inflight[c].pc = "done"

\* what a handler answers when it dereferences a global that is still None
NoneDereference ==
    {"Prediction failed: KeyError: None", "Prediction failed: AttributeError: NoneType"}

\* C15: with /predict and /ready handled statement by statement between the
\* statements of startup_event, every request either observes not-ready
\* (503) or a fully initialised model and feature-name list; none
\* dereferences a None model or None feature_names.
C15_RacingStartup ==
    /\ app_state.is_ready \in BOOLEAN
    /\ \A c \in Clients :
        /\ PastReadyCheck(c) => (~IsNone(model) /\ ~IsNone(feature_names))
        /\ Done(c) =>
              /\ inflight[c].reply.content.detail \notin NoneDereference
              /\ inflight[c].reply.status \in {200, 422, 500, 503}
              /\ inflight[c].reply.status \in {200, 500} =>
                    (~IsNone(model) /\ ~IsNone(feature_names) /\ app_state.is_ready)
              /\ startup_pc # "ready" => inflight[c].reply.status \in {422, 503}
              /\ (inflight[c].route = "/ready" /\ inflight[c].reply.status = 200) =>
                    inflight[c].reply.content.model_loaded = Some(TRUE)

C15_Witness ==
    /\ inflight["a"].route = "/predict"
    /\ ~inflight["a"].in_ready
    /\ Done("a")
    /\ inflight["a"].reply.status = 200
    /\ inflight["b"].route = "/ready"
    /\ ~inflight["b"].in_ready
    /\ Done("b")
    /\ inflight["b"].reply.status = 503

\* C16: of the /predict requests handled side by side in READY, under every
\* interleaving of their steps, each gets the response it would get if
\* handled alone, whatever the other request ends in.
C16_RequestIndependence ==
    \A c \in Clients :
        (Done(c) /\ inflight[c].route = "/predict" /\ inflight[c].in_ready) =>
            inflight[c].reply = predict(inflight[c].payload)

C16_Witness ==
    /\ inflight["a"].route = "/predict" /\ inflight["a"].in_ready /\ Done("a")
    /\ inflight["a"].reply.status = 200
    /\ inflight["b"].route = "/predict" /\ inflight["b"].in_ready /\ Done("b")
    /\ inflight["b"].reply.status = 500
    /\ Get(inflight["b"].frame) # Get(inflight["a"].frame)

Conforms(payload) ==
    \A f \in RequiredFields : f \in DOMAIN payload /\ payload[f].t # "text"

\* both bodies carry the same value for every name of F that they carry
AgreeOn(F, p, q) ==
    \A i \in 1..Len(F) :
        /\ F[i] \in DOMAIN p <=> F[i] \in DOMAIN q
        /\ F[i] \in DOMAIN p => p[F[i]].v = q[F[i]].v

\* C17: with an artifact loaded, two schema-valid requests that agree on
\* every field named in the feature-name sequence get identical responses,
\* whatever they carry in fields outside it or in unknown fields; such
\* fields are not rejected and do not reach the classifier.
C17_DroppedFieldsIgnored ==
    /\ [][(/\ last.route = "/predict" /\ last'.route = "/predict"
           /\ last.seen_pc = "ready" /\ last'.seen_pc = "ready"
           /\ Conforms(last.payload) /\ Conforms(last'.payload)
           /\ AgreeOn(Get(feature_names), last.payload, last'.payload))
              => last'.reply = last.reply]_vars
    /\ []((IsPredict /\ AnsweredReady /\ Conforms(last.payload)) =>
            /\ last.reply.status # 422
            /\ last.reply.passed # None =>
                  Len(Get(last.reply.passed)) = Len(Get(feature_names)))

C17_Witness ==
    /\ IsPredict
    /\ AnsweredReady
    /\ Conforms(last.payload)
    /\ feature_names = Some(ShuffledOrder)
    /\ Value("Time") = TooLarge
    /\ last.reply.status = 200
    /\ last.reply.passed = Some(<<0, 0, 0>>)

\* C18: validation runs before the handler body: a schema-invalid /predict
\* is rejected with a client error in every process state and reaches
\* neither the readiness check, nor the projection, nor the classifier.
C18_ValidationFirst ==
    IsPredict =>
        /\ Len(last.reply.trace) >= 1
        /\ last.reply.trace[1] = "validate"
        /\ ViolatesSchema =>
              /\ last.reply.status \in 400..499
              /\ last.reply.trace = <<"validate">>
              /\ ~Occurs("ready_check")
              /\ ~Occurs("read_feature_names")
              /\ ClassifierUntouched

C18_Witness ==
    /\ IsPredict
    /\ ViolatesSchema
    /\ last.seen_pc = "failed"
    /\ last.reply.trace = <<"validate">>
    /\ last.reply.status = 422

ProjectionSucceeds ==
    \A i \in 1..Len(Get(feature_names)) : Get(feature_names)[i] \in RequiredFields

CallSucceeds ==
    /\ Get(model).clf.has_proba
    /\ \A i \in 1..Len(Get(feature_names)) : Value(Get(feature_names)[i]) # TooLarge

\* C19: every /predict call ends in exactly one of 200, 422, 503, 500; for
\* a schema-valid request in READY it is 200 exactly when the projection and
\* the predict_proba call both succeed and 500 otherwise; a 200 response has
\* is_fraud 0 or 1.
C19_OutcomePartition ==
    IsPredict =>
        /\ last.reply.status \in {200, 422, 503, 500}
        /\ (AnsweredReady /\ ~ViolatesSchema) =>
              /\ last.reply.status = 200 <=> (ProjectionSucceeds /\ CallSucceeds)
              /\ last.reply.status \in {200, 500}
        /\ last.reply.status = 200 =>
              last.reply.content.is_fraud \in {Some(0), Some(1)}

C19_Witness ==
    /\ IsPredict
    /\ AnsweredReady
    /\ ~ViolatesSchema
    /\ ProjectionSucceeds
    /\ ~Get(model).clf.has_proba
    /\ last.reply.status = 500

\* C20: for a schema-valid request while is_ready is false, the 503 of the
\* readiness check is what the client receives; the handler's generic
\* exception handler does not turn it into a 500.
C20_NotReadyNotMasked ==
    (IsPredict /\ ~ViolatesSchema /\ AnsweredNotReady) =>
        /\ last.reply.status # 500
        /\ last.reply.status = 503
        /\ last.reply.content.detail = "Service not ready. Model not loaded."
        /\ last.reply.trace = <<"validate", "ready_check">>

C20_Witness ==
    /\ IsPredict
    /\ ~ViolatesSchema
    /\ last.seen_pc = "begin"
    /\ last.reply.status = 503
    /\ last.reply.content.detail = "Service not ready. Model not loaded."

\* C21: in every reachable state is_ready implies that model and
\* feature_names are both set, so /ready never answers 200 with
\* model_loaded false; the converse fails: after a load that stops at the
\* feature-name extraction model is set while is_ready stays false.
C21_ReadyImpliesArtifact ==
    /\ app_state.is_ready => (~IsNone(model) /\ ~IsNone(feature_names))
    /\ startup_pc = "ready" => (~IsNone(model) /\ ~IsNone(feature_names))
    /\ (last.route = "/ready" /\ last.reply.status = 200) =>
          last.reply.content.model_loaded = Some(TRUE)
    /\ (artifact.kind = "no_metadata" /\ startup_pc = "failed") =>
          (~IsNone(model) /\ IsNone(feature_names) /\ ~app_state.is_ready)

C21_Witness ==
    /\ artifact.kind = "no_metadata"
    /\ startup_pc = "failed"
    /\ ~IsNone(model)
    /\ ~app_state.is_ready
    /\ last.route = "/ready"
    /\ last.seen_pc = "failed"
    /\ last.reply.status = 503

\* C22: once the process is READY the feature-name sequence is non-empty,
\* is the one extracted from the artifact's metadata at load, and never
\* changes again; every /predict handled in READY projects its record onto
\* that same sequence.
C22_FeatureNamesStable ==
    /\ [](startup_pc = "ready" =>
            /\ ~IsNone(feature_names)
            /\ Len(Get(feature_names)) > 0
            /\ Get(feature_names) = artifact.names)
    /\ []((IsPredict /\ AnsweredReady /\ ~ViolatesSchema) =>
            /\ Occurs("read_feature_names")
            /\ last.reply.passed # None =>
                  Get(last.reply.passed) =
                      [i \in 1..Len(artifact.names) |-> Value(artifact.names[i])])
    /\ [][~IsNone(feature_names) => feature_names' = feature_names]_vars
    /\ [][feature_names' # feature_names => startup_pc = "names"]_vars

C22_Witness ==
    /\ startup_pc = "ready"
    /\ feature_names = Some(NoTimeOrder)
    /\ IsPredict
    /\ AnsweredReady
    /\ last.reply.status = 200
    /\ Len(Get(last.reply.passed)) = Len(NoTimeOrder)

\* C23: a load that fails because the file is absent is reported with a
\* cause of its own, different from the cause reported for a corrupt file
\* or for an object without feature-name metadata; absence is detected by
\* the existence check, so a missing path is never deserialized.
C23_DistinctCauses ==
    /\ artifact.kind = "missing" => (loads = 0 /\ IsNone(model))
    /\ startup_pc = "failed" =>
          /\ startup_error \in FailureCauses
          /\ startup_error = "FileNotFoundError" <=> artifact.kind = "missing"
          /\ startup_error = "FileNotFoundError" <=> loads = 0
          /\ artifact.kind \in {"corrupt", "no_metadata"} => loads = 1
          /\ error_log = <<LogEvent("startup_failure", startup_error)>>

C23_Witness ==
    /\ artifact.kind = "missing"
    /\ startup_pc = "failed"
    /\ loads = 0
    /\ error_log = <<LogEvent("startup_failure", "FileNotFoundError")>>

ProbeRoutes == {"/", "/health", "/live", "/ready"}

\* C24: startup_event logs exactly one error-level event when it fails and
\* none when it succeeds; a /predict call logs exactly one error-level
\* event when it ends in 500 and none when it ends in 200, 422 or 503; the
\* probes log none; no request adds to what startup logged.
C24_ErrorLogging ==
    /\ [](/\ Len(error_log) = (IF startup_pc = "failed" THEN 1 ELSE 0)
          /\ startup_pc = "failed" => error_log[1].event = "startup_failure"
          /\ IsPredict =>
                /\ last.reply.status = 500 =>
                      /\ Len(last.reply.logged) = 1
                      /\ last.reply.logged[1].event = "prediction_error"
                /\ last.reply.status # 500 => last.reply.logged = <<>>
          /\ last.route \in ProbeRoutes => last.reply.logged = <<>>)
    /\ [][Answered => UNCHANGED error_log]_vars
    /\ [][error_log' # error_log => (startup_pc # "failed" /\ startup_pc' = "failed")]_vars

C24_Witness ==
    /\ IsPredict
    /\ AnsweredReady
    /\ last.reply.status = 500
    /\ last.reply.logged = <<LogEvent("prediction_error", "ValueError")>>
    /\ error_log = <<>>

====
